---- MODULE Spec2Model ----
(***************************************************************************)
(* A model of the read-only SQL gateway of the MS SQL MCP server:          *)
(* DatabaseManager (src/src/database.ts), QueryTools                        *)
(* (src/src/tools/query-tools.ts), ConfigManager (src/src/config.ts) and    *)
(* the tool-call handler of src/src/index.ts.                               *)
(*                                                                         *)
(* JavaScript strings are sequences of one-character strings, so that the  *)
(* regular expressions, trim(), toLowerCase(), includes() and replace()    *)
(* of the source are computed character by character.                      *)
(***************************************************************************)
EXTENDS Integers, Sequences, FiniteSets, TLC

\* ------------------------------------------------------------------------
\* JavaScript string primitives used by the source
\* ------------------------------------------------------------------------

LowerLetters == <<"a","b","c","d","e","f","g","h","i","j","k","l","m","n","o","p","q","r","s","t","u","v","w","x","y","z">>

UpperLetters == <<"A","B","C","D","E","F","G","H","I","J","K","L","M","N","O","P","Q","R","S","T","U","V","W","X","Y","Z">>

DigitChars == <<"0","1","2","3","4","5","6","7","8","9">>

Range(f) == {f[i] : i \in DOMAIN f}

LowerSet == Range(LowerLetters)

UpperSet == Range(UpperLetters)

\* \w of a JavaScript regular expression: [A-Za-z0-9_]
WordChars == LowerSet \cup UpperSet \cup Range(DigitChars) \cup {"_"}

\* \s of a JavaScript regular expression (the members the inputs use)
SpaceChars == {" ", "\t", "\n"}

IsWordChar(c) == c \in WordChars

IsSpace(c) == c \in SpaceChars

LetterIndex(letters, c) == CHOOSE i \in 1..Len(letters) : letters[i] = c

LowerOf == [c \in UpperSet |-> LowerLetters[LetterIndex(UpperLetters, c)]]

UpperOf == [c \in LowerSet |-> UpperLetters[LetterIndex(LowerLetters, c)]]

\* String.prototype.toLowerCase, one character
toLowerCaseChar(c) == IF c \in UpperSet THEN LowerOf[c] ELSE c

\* String.prototype.toUpperCase, one character
toUpperCaseChar(c) == IF c \in LowerSet THEN UpperOf[c] ELSE c

toLowerCase(s) == [i \in 1..Len(s) |-> toLowerCaseChar(s[i])]

toUpperCase(s) == [i \in 1..Len(s) |-> toUpperCaseChar(s[i])]

\* String.prototype.trim: leading and trailing white space removed
trim(s) ==
  LET keep == {i \in 1..Len(s) : ~IsSpace(s[i])}
  IN  IF keep = {} THEN <<>>
      ELSE LET first == CHOOSE i \in keep : \A j \in keep : i <= j
               last  == CHOOSE i \in keep : \A j \in keep : j <= i
           IN  SubSeq(s, first, last)

\* the literal `w` stands in `s` at position i (case-sensitive)
LiteralAt(s, i, w) ==
  /\ i >= 1
  /\ i + Len(w) - 1 <= Len(s)
  /\ \A k \in 1..Len(w) : s[i + k - 1] = w[k]

\* the literal `w` of a /.../i pattern stands in `s` at position i
LiteralAtI(s, i, w) ==
  /\ i >= 1
  /\ i + Len(w) - 1 <= Len(s)
  /\ \A k \in 1..Len(w) : toLowerCaseChar(s[i + k - 1]) = toLowerCaseChar(w[k])

\* \b of a regular expression, between positions i-1 and i of `s`
WordBoundary(s, i) ==
  (i - 1 >= 1 /\ IsWordChar(s[i - 1])) # (i <= Len(s) /\ IsWordChar(s[i]))

\* String.prototype.includes
includes(s, w) == \E i \in 1..Len(s) : LiteralAt(s, i, w)

\* the end of the longest run of characters of `class` that starts at i
\* (i - 1 when s[i] is not of the class)
RunEnd(s, i, class) ==
  LET stops == {j \in i..Len(s) : s[j] \notin class}
  IN  IF stops = {} THEN Len(s)
      ELSE (CHOOSE j \in stops : \A k \in stops : j <= k) - 1

\* ------------------------------------------------------------------------
\* DatabaseManager.validateReadOnlyQuery (src/src/database.ts:144-164)
\* ------------------------------------------------------------------------

Allowed == "allowed"

MsgOnlySelect ==
  "Only SELECT queries are allowed. Write operations must be performed through Entity Framework."

MsgMustStart == "Query must start with SELECT, WITH, or EXPLAIN"

\* the alternatives of the first dangerous pattern with one keyword left
\* out: the list as a slip in it would leave it
dangerousKeywords_WithoutTruncate ==
  { <<"i","n","s","e","r","t">>, <<"u","p","d","a","t","e">>, <<"d","e","l","e","t","e">>, <<"d","r","o","p">>, <<"a","l","t","e","r">>,
    <<"c","r","e","a","t","e">>, <<"e","x","e","c">>, <<"e","x","e","c","u","t","e">>, <<"s","p","_","e","x","e","c","u","t","e","s","q","l">> }

\* the alternatives of the first dangerous pattern
dangerousKeywords ==
  { <<"i","n","s","e","r","t">>, <<"u","p","d","a","t","e">>, <<"d","e","l","e","t","e">>, <<"d","r","o","p">>, <<"t","r","u","n","c","a","t","e">>, <<"a","l","t","e","r">>,
    <<"c","r","e","a","t","e">>, <<"e","x","e","c">>, <<"e","x","e","c","u","t","e">>, <<"s","p","_","e","x","e","c","u","t","e","s","q","l">> }

\* /\b(insert|update|...|sp_executesql)\b/i
dangerousKeywordPattern(s) ==
  \E i \in 1..Len(s) : \E w \in dangerousKeywords :
     /\ LiteralAtI(s, i, w)
     /\ WordBoundary(s, i)
     /\ WordBoundary(s, i + Len(w))

\* /\binto\s+\w+/i
intoPattern(s) ==
  \E i \in 1..Len(s) :
     /\ LiteralAtI(s, i, <<"i","n","t","o">>)
     /\ WordBoundary(s, i)
     /\ LET e == RunEnd(s, i + 4, SpaceChars)
        IN  /\ e >= i + 4
            /\ e + 1 <= Len(s)
            /\ IsWordChar(s[e + 1])

\* /\bset\s+\w+\s*=/i
setPattern(s) ==
  \E i \in 1..Len(s) :
     /\ LiteralAtI(s, i, <<"s","e","t">>)
     /\ WordBoundary(s, i)
     /\ LET e == RunEnd(s, i + 3, SpaceChars)
        IN  /\ e >= i + 3
            /\ LET w == RunEnd(s, e + 1, WordChars)
               IN  /\ w >= e + 1
                   /\ LET x == RunEnd(s, w + 1, SpaceChars)
                      IN  /\ x + 1 <= Len(s)
                          /\ s[x + 1] = "="

\* /^(select|with|explain|set\s+(statistics|showplan))/i
startPattern(s) ==
  \/ LiteralAtI(s, 1, <<"s","e","l","e","c","t">>)
  \/ LiteralAtI(s, 1, <<"w","i","t","h">>)
  \/ LiteralAtI(s, 1, <<"e","x","p","l","a","i","n">>)
  \/ /\ LiteralAtI(s, 1, <<"s","e","t">>)
     /\ LET e == RunEnd(s, 4, SpaceChars)
        IN  /\ e >= 4
            /\ \/ LiteralAtI(s, e + 1, <<"s","t","a","t","i","s","t","i","c","s">>)
               \/ LiteralAtI(s, e + 1, <<"s","h","o","w","p","l","a","n">>)

\* validateReadOnlyQuery with its checks composed the other way: a text that
\* passes the start pattern is let through, the dangerous patterns are only
\* looked at for the others
validateReadOnlyQuery_StartDecides(query) ==
  LET normalizedQuery == toLowerCase(trim(query))
  IN  IF startPattern(normalizedQuery) THEN Allowed
      ELSE IF \/ dangerousKeywordPattern(normalizedQuery)
              \/ intoPattern(normalizedQuery)
              \/ setPattern(normalizedQuery)
           THEN MsgOnlySelect
           ELSE MsgMustStart

\* the outcome of validateReadOnlyQuery: Allowed when it returns, the
\* message of the Error it throws otherwise
validateReadOnlyQuery(query) ==
  LET normalizedQuery == toLowerCase(trim(query))
  IN  IF \/ dangerousKeywordPattern(normalizedQuery)
         \/ intoPattern(normalizedQuery)
         \/ setPattern(normalizedQuery)
      THEN MsgOnlySelect
      ELSE IF ~startPattern(normalizedQuery)
           THEN MsgMustStart
           ELSE Allowed

\* ------------------------------------------------------------------------
\* QueryTools.addRowLimit (src/src/tools/query-tools.ts:209-229)
\* ------------------------------------------------------------------------

RECURSIVE NumberToString(_)
\* the decimal digits of a non-negative integer, as `${maxRows}` prints it
NumberToString(n) ==
  IF n < 10 THEN <<DigitChars[n + 1]>>
  ELSE NumberToString(n \div 10) \o <<DigitChars[(n % 10) + 1]>>

\* the start of the first match of /SELECT\s+/i in `s`, 0 when there is none
selectRegexIndex(s) ==
  LET hits == {i \in 1..Len(s) :
                 /\ LiteralAtI(s, i, <<"S","E","L","E","C","T">>)
                 /\ i + 6 <= Len(s)
                 /\ IsSpace(s[i + 6])}
  IN  IF hits = {} THEN 0 ELSE CHOOSE i \in hits : \A j \in hits : i <= j

\* query.replace(selectRegex, `SELECT TOP ${maxRows} `): the first match,
\* SELECT and the whole run of white space after it, is replaced
replaceSelect(query, maxRows) ==
  LET i == selectRegexIndex(query)
      e == RunEnd(query, i + 6, SpaceChars)
  IN  SubSeq(query, 1, i - 1) \o <<"S","E","L","E","C","T"," ","T","O","P"," ">> \o NumberToString(maxRows) \o <<" ">>
        \o SubSeq(query, e + 1, Len(query))

\* addRowLimit without its test for a TOP clause that is already there
addRowLimit_WithoutTopTest(query, maxRows) ==
  LET normalizedQuery == toUpperCase(trim(query))
  IN  IF includes(normalizedQuery, <<"O","F","F","S","E","T">>) /\ includes(normalizedQuery, <<"F","E","T","C","H">>)
      THEN query
      ELSE IF selectRegexIndex(query) # 0 THEN replaceSelect(query, maxRows)
      ELSE query

addRowLimit(query, maxRows) ==
  LET normalizedQuery == toUpperCase(trim(query))
  IN  IF includes(normalizedQuery, <<"S","E","L","E","C","T"," ","T","O","P">>) THEN query
      ELSE IF includes(normalizedQuery, <<"O","F","F","S","E","T">>) /\ includes(normalizedQuery, <<"F","E","T","C","H">>)
           THEN query
      ELSE IF selectRegexIndex(query) # 0 THEN replaceSelect(query, maxRows)
      ELSE query

\* ------------------------------------------------------------------------
\* Configuration (src/src/config.ts)
\* ------------------------------------------------------------------------

\* limits.max_rows
LimitsMaxRows == 10000

\* limits.max_query_length
LimitsMaxQueryLength == 50000

\* limits.query_timeout_seconds
LimitsQueryTimeoutSeconds == 30

\* the default of max_rows in the mssql_execute_query case
DefaultMaxRows == 1000

\* the port getConnectionKey takes for a profile without one
DefaultPort == 1433

\* requestTimeout of the configuration every pool is constructed with, in
\* milliseconds
PoolRequestTimeout == 30000

\* an absent (undefined) or empty string field: falsy in JavaScript
Absent == <<>>

\* connection profiles, as loadConnectionsFromEnv builds them; port 0 stands
\* for a port that is falsy (parseInt gave NaN or 0)
ProfilePlain ==
  [server |-> <<"h">>, port |-> 1433, database |-> <<"A">>, authentication |-> "sql",
   username |-> <<"u">>, password |-> <<"p","w">>, readonly |-> TRUE, encrypt |-> FALSE,
   trustServerCertificate |-> TRUE]

ProfileOtherDatabase ==
  [server |-> <<"h">>, port |-> 0, database |-> <<"B">>, authentication |-> "sql",
   username |-> <<"u">>, password |-> <<"p","w">>, readonly |-> TRUE, encrypt |-> FALSE,
   trustServerCertificate |-> TRUE]

\* the server, database and user of ProfilePlain, its other settings different
ProfilePlainEncrypted ==
  [server |-> <<"h">>, port |-> 1433, database |-> <<"A">>, authentication |-> "sql",
   username |-> <<"u">>, password |-> <<"p","w">>, readonly |-> FALSE, encrypt |-> TRUE,
   trustServerCertificate |-> FALSE]

ProfileColonUser ==
  [server |-> <<"h">>, port |-> 1433, database |-> <<"A">>, authentication |-> "sql",
   username |-> <<"B",":","u">>, password |-> <<"p","w">>, readonly |-> TRUE, encrypt |-> FALSE,
   trustServerCertificate |-> TRUE]

ProfileColonDatabase ==
  [server |-> <<"h">>, port |-> 1433, database |-> <<"A",":","B">>, authentication |-> "sql",
   username |-> <<"u">>, password |-> <<"p","w">>, readonly |-> FALSE, encrypt |-> TRUE,
   trustServerCertificate |-> FALSE]

ProfileIntegrated ==
  [server |-> <<"h">>, port |-> 1433, database |-> <<"A">>, authentication |-> "integrated",
   username |-> Absent, password |-> Absent, readonly |-> TRUE, encrypt |-> FALSE,
   trustServerCertificate |-> TRUE]

ProfileNoPassword ==
  [server |-> <<"h">>, port |-> 1433, database |-> <<"A">>, authentication |-> "sql",
   username |-> <<"u">>, password |-> Absent, readonly |-> TRUE, encrypt |-> FALSE,
   trustServerCertificate |-> TRUE]

\* the `connections` a start-up can load: 'local' is always present
\* (loadConfig throws otherwise); 'prod' and 'dev' are optional
ConfigSamples ==
  { [n \in {"local"} |-> ProfilePlain],
    [n \in {"local"} |-> ProfileNoPassword],
    [n \in {"local", "prod"} |->
       IF n = "local" THEN ProfilePlain ELSE ProfilePlainEncrypted],
    [n \in {"local", "prod"} |->
       IF n = "local" THEN ProfilePlain ELSE ProfileOtherDatabase],
    [n \in {"local", "prod"} |->
       IF n = "local" THEN ProfileColonUser ELSE ProfileColonDatabase],
    [n \in {"local", "prod"} |->
       IF n = "local" THEN ProfileIntegrated ELSE ProfileNoPassword] }

\* the names a caller may pass to mssql_switch_connection
EnvironmentNames == {"local", "prod", "dev"}

\* names that `connections`, an object literal, inherits from
\* Object.prototype: connections[name] is then a function or an object
\* without the fields of a profile
InheritedNames == {"constructor"}

\* ------------------------------------------------------------------------
\* State
\* ------------------------------------------------------------------------

VARIABLES
  connections,         \* ConfigManager.config.connections
  current_connection,  \* ConfigManager.config.current_connection
  pools,               \* DatabaseManager.pools: connection key -> pool
  poolKeys,            \* the keys of DatabaseManager.pools in insertion order
  closer,              \* where a call of DatabaseManager.closeAll stands
  poolObjs,            \* every sql.ConnectionPool constructed, by identity
  pc,                  \* where each tool invocation stands
  req,                 \* the request (tool name and arguments) of each invocation
  conn,                \* the profile, key and pool of each invocation
  stage,               \* which query of its tool an invocation is waiting for
  verdict,             \* the outcome of validateReadOnlyQuery in each invocation
  issued,              \* the requests each invocation handed to the driver
  response,            \* what each invocation answered
  described,           \* what the sub-queries of describeTable returned so far
  failures,            \* the errors the driver raised while each invocation was served
  catalog,             \* the database: the columns and primary key of table T
  gText,               \* pure functions: the query text given
  gLimit,              \* pure functions: the maxRows given
  gVerdict,            \* pure functions: what validateReadOnlyQuery answered
  gStage,              \* pure functions: how often addRowLimit was applied
  gOnce,               \* pure functions: addRowLimit applied once
  gTwice               \* pure functions: addRowLimit applied to that result

serverVars ==
  <<connections, current_connection, pools, poolKeys, closer, poolObjs, pc, req,
    conn, stage, verdict, issued, response, described, failures, catalog>>

guardVars == <<gText, gLimit, gVerdict, gStage, gOnce, gTwice>>

vars == <<serverVars, guardVars>>

\* the number of tool invocations a run receives, which may all be in
\* flight together
MaxCalls == 2

\* the same, in the runs of the query tools
MaxQueryCalls == 1

\* the invocations of this run
Calls == DOMAIN pc

NoPool == 0

None == "none"

NoRequest ==
  [tool |-> None, query |-> <<>>, database |-> <<>>, max_rows |-> 0,
   timeout |-> 0, environment |-> None, padding |-> 0]

\* name: the profile that was current; key: its connection key; found: the
\* pool getConnection found registered and connected (NoPool when it found
\* none); pool: the pool it holds
NoConn == [name |-> None, key |-> <<>>, found |-> NoPool, pool |-> NoPool]

NoResponse == [isError |-> FALSE, text |-> <<>>]

\* closeAll not called. pc: where the call stands; at: the position of its
\* iterator in the Map; pool: the pool whose close() it awaits; initial:
\* the pools registered when it was called; attempted: the pools it called
\* close() on; failed: the pools whose close() failed and was logged
NoCloser ==
  [pc |-> "idle", at |-> 0, pool |-> NoPool, initial |-> {}, attempted |-> {},
   failed |-> {}]

\* the results of the six sub-queries of describeTable, none made yet (rows
\* are kept as sets: their order is left out)
NoDescription ==
  [columns |-> {}, primary_keys |-> {}, indexes |-> {}, foreign_keys |-> {},
   referenced_by |-> {}, triggers |-> {}]

\* column names a table can have
ColumnNames == {"id", "name"}

\* how often other sessions change the catalog during a run
MaxCatalogChanges == 1

\* what the catalog views can hold about table T: its columns (none when
\* the table does not exist) and the columns of its primary key; version
\* counts the changes other sessions made
Catalogs ==
  {k \in [columns : SUBSET ColumnNames, primary_keys : SUBSET ColumnNames,
          version : 0..MaxCatalogChanges] :
     k.primary_keys \subseteq k.columns}

\* table T does not exist
NoTable == [columns |-> {}, primary_keys |-> {}, version |-> 0]

Min(a, b) == IF a <= b THEN a ELSE b

\* ------------------------------------------------------------------------
\* Requests a caller can send
\* ------------------------------------------------------------------------

\* tools that take free-form SQL text from the caller
SqlTools ==
  { "mssql_execute_query", "mssql_execute_scalar", "mssql_explain_query",
    "mssql_validate_syntax", "mssql_analyze_query_performance" }

\* SQL texts a caller sends
SqlSamples ==
  { <<"s","e","l","e","c","t"," ","x">>, <<"S","E","L","E","C","T"," "," ","T","O","P"," ","5"," ","x">>, <<"s","e","l","e","c","t"," ","x",";"," ","d","r","o","p"," ","t","a","b","l","e"," ","t">>, <<"s","e","l","e","c","t"," ","x"," ","i","n","t","o"," ","#","t">>,
    <<"s","h","o","w"," ","t","a","b","l","e","s">> }

DatabaseArgs == { <<"A">> }

MaxRowsArgs == {0, 50}

TimeoutArgs == {0, 5}

SchemaArg == <<"d","b","o">>

TableArg == <<"T">>

Requests ==
  { [tool |-> t, query |-> q, database |-> d, max_rows |-> m, timeout |-> 0,
     environment |-> None, padding |-> 0] :
       t \in SqlTools, q \in SqlSamples, d \in DatabaseArgs, m \in {0} }
  \cup
  { [tool |-> "mssql_execute_query", query |-> q, database |-> d, max_rows |-> m,
     timeout |-> 0, environment |-> None, padding |-> 0] :
       q \in SqlSamples, d \in DatabaseArgs, m \in MaxRowsArgs }
  \cup
  { [tool |-> "mssql_execute_query", query |-> <<"s","e","l","e","c","t"," ","x">>, database |-> d,
     max_rows |-> 0, timeout |-> t, environment |-> None, padding |-> 0] :
       d \in DatabaseArgs, t \in TimeoutArgs }
  \cup
  { [tool |-> "mssql_data_quality_check", query |-> <<>>, database |-> d,
     max_rows |-> 0, timeout |-> 0, environment |-> None, padding |-> 0] : d \in DatabaseArgs }
  \cup
  { [tool |-> "mssql_switch_connection", query |-> <<>>, database |-> <<>>,
     max_rows |-> 0, timeout |-> 0, environment |-> e, padding |-> 0] : e \in EnvironmentNames }

\* what the driver reports when a query fails
DriverErrors == { "Timeout: Request failed to complete", "Invalid object name" }

\* how many rows the first recordset of a successful query holds
RowCounts == {0, 1}

\* ------------------------------------------------------------------------
\* DatabaseManager.getConnectionKey (src/src/database.ts:80-82)
\* ------------------------------------------------------------------------

getConnectionKey(config) ==
  config.server \o <<":">>
    \o NumberToString(IF config.port # 0 THEN config.port ELSE DefaultPort) \o <<":">>
    \o config.database \o <<":">>
    \o (IF config.username # Absent THEN config.username ELSE <<"i","n","t","e","g","r","a","t","e","d">>)

\* this.config.connections[name] as a condition: an own property or an
\* inherited one
HasConnection(name) == name \in DOMAIN connections \/ name \in InheritedNames

\* getConnectionKey of a value without server, database and username
UndefinedKey == <<"u","n","d","e","f","i","n","e","d",":","1","4","3","3",":","u","n","d","e","f","i","n","e","d",":","i","n","t","e","g","r","a","t","e","d">>

\* pool && pool.connected, for the pool registered under `key`
RegisteredConnected(key) ==
  /\ key \in DOMAIN pools
  /\ poolObjs[pools[key]].connected

\* a registry that keeps the pool it holds for a key: set only when the
\* key is absent
PoolsSet_IfAbsent(key, p) ==
  [k \in DOMAIN pools \cup {key} |-> IF k \in DOMAIN pools THEN pools[k] ELSE p]

\* this.pools.set(key, pool)
PoolsSet(key, p) ==
  [k \in DOMAIN pools \cup {key} |-> IF k = key THEN p ELSE pools[k]]

\* the insertion order after this.pools.set(key, pool): a new key goes last,
\* a key that is present keeps its place
KeysSet(key) == IF key \in DOMAIN pools THEN poolKeys ELSE Append(poolKeys, key)

\* ------------------------------------------------------------------------
\* Statement templates of the tools
\* (the indentation of the template literals is abridged to one blank)
\* ------------------------------------------------------------------------

UseStatement(database) == <<"U","S","E"," ","[">> \o database \o <<"]",";"," ">>

\* QueryTools.explainQuery: statsQuery
StatsQuery(database, query) ==
  UseStatement(database) \o <<"S","E","T"," ","S","T","A","T","I","S","T","I","C","S"," ","X","M","L"," ","O","N",";"," ">> \o query
    \o <<" ","S","E","T"," ","S","T","A","T","I","S","T","I","C","S"," ","X","M","L"," ","O","F","F",";">>

\* QueryTools.explainQuery: costQuery
CostQuery(database) ==
  UseStatement(database) \o <<"S","E","L","E","C","T"," ","'","E","x","e","c","u","t","i","o","n"," ","P","l","a","n","'"," ","a","s"," ","i","n","f","o">>

\* QueryTools.validateSyntax
ParseOnlyQuery(database, sqlQuery) ==
  UseStatement(database) \o <<"S","E","T"," ","P","A","R","S","E","O","N","L","Y"," ","O","N",";"," ">> \o sqlQuery \o <<" ","S","E","T"," ","P","A","R","S","E","O","N","L","Y"," ","O","F","F",";">>

\* QueryTools.analyzeQueryPerformance
AnalysisQuery(database, query) ==
  UseStatement(database) \o <<"S","E","T"," ","S","T","A","T","I","S","T","I","C","S"," ","I","O"," ","O","N",";"," ","S","E","T"," ","S","T","A","T","I","S","T","I","C","S"," ","T","I","M","E"," ","O","N",";"," ">> \o query
    \o <<" ","S","E","T"," ","S","T","A","T","I","S","T","I","C","S"," ","I","O"," ","O","F","F",";"," ","S","E","T"," ","S","T","A","T","I","S","T","I","C","S"," ","T","I","M","E"," ","O","F","F",";">>

\* ProfilingTools.checkDataQuality: checksQuery (its statements, abridged)
ChecksQuery(database, schema, table) ==
  UseStatement(database) \o <<"S","E","L","E","C","T"," ","c",".","n","a","m","e"," ","I","N","T","O"," ","#","c","o","l","u","m","n","s"," ","F","R","O","M"," ","s","y","s",".","c","o","l","u","m","n","s"," ","c"," ","W","H","E","R","E"," ","c",".","o","b","j","e","c","t","_","i","d"," ","="," ","O","B","J","E","C","T","_","I","D","(","'">>
    \o schema \o <<".">> \o table
    \o <<"'",")",";"," ","E","X","E","C"," ","s","p","_","e","x","e","c","u","t","e","s","q","l"," ","@","s","q","l",";"," ","D","R","O","P"," ","T","A","B","L","E"," ","#","c","o","l","u","m","n","s",";">>

\* ProfilingTools.checkDataQuality: simpleQuery
SimpleQuery(database, schema, table) ==
  UseStatement(database) \o <<"S","E","L","E","C","T"," ","C","O","U","N","T","(","*",")"," ","A","S"," ","t","o","t","a","l","_","r","o","w","s"," ","F","R","O","M"," ","[">> \o schema \o <<"]",".","[">>
    \o table \o <<"]">>

\* SchemaTools.describeTable: the queries of getTableColumns, getPrimaryKeys,
\* getIndexes, getForeignKeys, getReferencedBy and getTriggers (abridged to
\* the catalog view read and the filter)
DescribeSubQueries == 6

DescribeFields ==
  <<"columns", "primary_keys", "indexes", "foreign_keys", "referenced_by", "triggers">>

DescribeViews ==
  << <<"s","y","s",".","c","o","l","u","m","n","s">>, <<"s","y","s",".","i","n","d","e","x","e","s"," ","W","H","E","R","E"," ","i","s","_","p","r","i","m","a","r","y","_","k","e","y"," ","="," ","1"," ","A","N","D">>, <<"s","y","s",".","i","n","d","e","x","e","s">>,
     <<"s","y","s",".","f","o","r","e","i","g","n","_","k","e","y","s"," ","p","a","r","e","n","t">>, <<"s","y","s",".","f","o","r","e","i","g","n","_","k","e","y","s"," ","r","e","f","e","r","e","n","c","e","d">>, <<"s","y","s",".","t","r","i","g","g","e","r","s">> >>

DescribeQuery(k, database, schema, table) ==
  UseStatement(database) \o <<"S","E","L","E","C","T"," ","n","a","m","e"," ","F","R","O","M"," ">> \o DescribeViews[k]
    \o <<" ","W","H","E","R","E"," ","s",".","n","a","m","e"," ","="," ","'">> \o schema \o <<"'"," ","A","N","D"," ","t",".","n","a","m","e"," ","="," ","'">> \o table \o <<"'">>

\* the rows sub-query k finds in the catalog as it is when the query runs
DescribeRows(k) ==
  CASE k = 1 -> catalog.columns
    [] k = 2 -> catalog.primary_keys
    [] k = 3 -> IF catalog.primary_keys # {}
                THEN {[name |-> "PK_T", columns |-> catalog.primary_keys,
                       included_columns |-> {}]}
                ELSE {}
    [] OTHER -> {}

\* ------------------------------------------------------------------------
\* Steps of a tool invocation
\* ------------------------------------------------------------------------

\* the handler's catch: { content: [{text: `Error: ${error.message}`}], isError: true }
ErrorResponse(message) == [isError |-> TRUE, text |-> <<"Error: ", message>>]

\* formatResponse(data)
OkResponse(data) == [isError |-> FALSE, text |-> data]

\* DatabaseManager.executeQuery: pool.request(), the timeout when one is
\* given, request.query(text)
Request(c, text, timeout) ==
  [text |-> text,
   timeoutMs |-> IF timeout # 0 THEN timeout * 1000 ELSE 0,
   pool |-> conn[c].pool,
   query |-> req[c].query,
   padding |-> req[c].padding,
   validated |-> verdict'[c] = Allowed]

\* the invocation ends with a response
Finish(c, r) ==
  /\ pc' = [pc EXCEPT ![c] = "done"]
  /\ response' = [response EXCEPT ![c] = r]

\* the invocation hands a query to the driver and waits for it
Issue(c, text, timeout, s) ==
  /\ issued' = [issued EXCEPT ![c] = Append(@, Request(c, text, timeout))]
  /\ stage' = [stage EXCEPT ![c] = s]
  /\ pc' = [pc EXCEPT ![c] = "querying"]
  /\ UNCHANGED response

\* The CallToolRequestSchema handler up to its first suspension:
\* getCurrentConnection, then getConnection up to `await pool.connect()`
HandlerStart(c, r) ==
  /\ pc[c] = "idle"
  /\ \A d \in Calls : d < c => pc[d] # "idle"
  /\ req' = [req EXCEPT ![c] = r]
  /\ LET connName == IF current_connection = "" THEN "default" ELSE current_connection
     IN  IF ~HasConnection(connName)
         THEN /\ Finish(c, ErrorResponse("Connection not found in configuration"))
              /\ UNCHANGED <<conn, poolObjs>>
         ELSE IF connName \notin DOMAIN connections
         THEN \* config.server is undefined: the key is computed, no pool is
              \* registered under it, and connectionConfig.server.includes throws
              /\ conn' = [conn EXCEPT ![c] =
                            [name |-> connName, key |-> UndefinedKey, found |-> NoPool,
                             pool |-> NoPool]]
              /\ Finish(c, ErrorResponse("Cannot read properties of undefined (reading 'includes')"))
              /\ UNCHANGED poolObjs
         ELSE LET config == connections[connName]
                  key == getConnectionKey(config)
              IN  IF RegisteredConnected(key)
                  THEN /\ conn' = [conn EXCEPT ![c] =
                                     [name |-> connName, key |-> key, found |-> pools[key],
                                      pool |-> pools[key]]]
                       /\ pc' = [pc EXCEPT ![c] = "ready"]
                       /\ UNCHANGED <<poolObjs, response>>
                  ELSE IF /\ config.authentication = "sql"
                          /\ (config.username = Absent \/ config.password = Absent)
                  THEN /\ conn' = [conn EXCEPT ![c] =
                                     [name |-> connName, key |-> key, found |-> NoPool,
                                      pool |-> NoPool]]
                       /\ Finish(c, ErrorResponse("SQL authentication requires username and password"))
                       /\ UNCHANGED poolObjs
                  ELSE /\ poolObjs' = Append(poolObjs,
                                        [key |-> key, config |-> config,
                                         requestTimeout |-> PoolRequestTimeout,
                                         state |-> "connecting", connected |-> FALSE])
                       /\ conn' = [conn EXCEPT ![c] =
                                     [name |-> connName, key |-> key, found |-> NoPool,
                                      pool |-> Len(poolObjs) + 1]]
                       /\ pc' = [pc EXCEPT ![c] = "connecting"]
                       /\ UNCHANGED response
  /\ UNCHANGED <<described, connections, current_connection, pools, stage, verdict, issued>>

\* a getConnection that closes the pool it replaces in the registry
ConnectResolves_ClosesReplaced(c) ==
  /\ pc[c] = "connecting"
  /\ poolObjs' =
       [p \in DOMAIN poolObjs |->
          IF p = conn[c].pool
          THEN [poolObjs[p] EXCEPT !.state = "connected", !.connected = TRUE]
          ELSE IF conn[c].key \in DOMAIN pools /\ pools[conn[c].key] = p
          THEN [poolObjs[p] EXCEPT !.state = "closed", !.connected = FALSE]
          ELSE poolObjs[p]]
  /\ pools' = PoolsSet(conn[c].key, conn[c].pool)
  /\ poolKeys' = KeysSet(conn[c].key)
  /\ pc' = [pc EXCEPT ![c] = "ready"]
  /\ UNCHANGED <<described, connections, current_connection, req, conn, stage, verdict,
                 issued, response>>

\* `await pool.connect()` resolves: the pool is registered and returned
ConnectResolves(c) ==
  /\ pc[c] = "connecting"
  /\ poolObjs' = [poolObjs EXCEPT ![conn[c].pool].state = "connected",
                                  ![conn[c].pool].connected = TRUE]
  /\ pools' = PoolsSet(conn[c].key, conn[c].pool)
  /\ poolKeys' = KeysSet(conn[c].key)
  /\ pc' = [pc EXCEPT ![c] = "ready"]
  /\ UNCHANGED <<described, connections, current_connection, req, conn, stage, verdict,
                 issued, response>>

\* a getConnection that registers the pool before awaiting its connect, so
\* that a pool whose connect failed stays in the registry
ConnectRejects_Registers(c) ==
  /\ pc[c] = "connecting"
  /\ poolObjs' = [poolObjs EXCEPT ![conn[c].pool].state = "failed"]
  /\ pools' = PoolsSet(conn[c].key, conn[c].pool)
  /\ Finish(c, ErrorResponse("ConnectionError"))
  /\ UNCHANGED <<described, connections, current_connection, req, conn, stage,
                 verdict, issued>>

\* `await pool.connect()` rejects: the error reaches the handler's catch
ConnectRejects(c) ==
  /\ pc[c] = "connecting"
  /\ poolObjs' = [poolObjs EXCEPT ![conn[c].pool].state = "failed"]
  /\ Finish(c, ErrorResponse("ConnectionError"))
  /\ UNCHANGED <<described, connections, current_connection, pools, req, conn, stage,
                 verdict, issued>>

\* a connected pool loses its connection: pool.connected turns false
PoolDisconnects(p) ==
  /\ p \in 1..Len(poolObjs)
  /\ poolObjs[p].connected
  /\ poolObjs' = [poolObjs EXCEPT ![p].connected = FALSE]
  /\ UNCHANGED <<described, connections, current_connection, pools, pc, req, conn, stage,
                 verdict, issued, response>>

\* Math.min(args.max_rows || 1000, limits.max_rows)
MaxRowsOf(r) ==
  Min(IF r.max_rows # 0 THEN r.max_rows ELSE DefaultMaxRows, LimitsMaxRows)

\* args.timeout, with no default behind it
TimeoutOf_ArgumentOnly(r) == r.timeout

\* args.timeout || limits.query_timeout_seconds
TimeoutOf(r) == IF r.timeout # 0 THEN r.timeout ELSE LimitsQueryTimeoutSeconds

\* validateReadOnlyQuery(query) called with its Error caught and dropped:
\* the tool goes on whatever the outcome
ValidateThen_ErrorDropped(c, continue) ==
  LET v == validateReadOnlyQuery(req[c].query)
  IN  /\ verdict' = [verdict EXCEPT ![c] = v]
      /\ continue

\* validateReadOnlyQuery(query) as the first statement of a tool: its
\* outcome is recorded, and an Error it throws ends the invocation in the
\* handler's catch
ValidateThen(c, continue) ==
  LET v == validateReadOnlyQuery(req[c].query)
  IN  /\ verdict' = [verdict EXCEPT ![c] = v]
      /\ IF v # Allowed
         THEN /\ Finish(c, ErrorResponse(v))
              /\ UNCHANGED <<issued, stage>>
         ELSE continue

\* QueryTools.executeQuery, to its await
QueryToolsExecuteQuery(c) ==
  ValidateThen(c,
    Issue(c, UseStatement(req[c].database)
               \o addRowLimit(req[c].query, MaxRowsOf(req[c])),
          TimeoutOf(req[c]), 1))

\* QueryTools.executeScalar, to its await
QueryToolsExecuteScalar(c) ==
  ValidateThen(c, Issue(c, UseStatement(req[c].database) \o req[c].query, 0, 1))

\* QueryTools.explainQuery, to its first await
QueryToolsExplainQuery(c) ==
  ValidateThen(c, Issue(c, StatsQuery(req[c].database, req[c].query), 0, 1))

\* QueryTools.validateSyntax, to its await
QueryToolsValidateSyntax(c) ==
  /\ UNCHANGED verdict
  /\ Issue(c, ParseOnlyQuery(req[c].database, req[c].query), 0, 1)

\* QueryTools.analyzeQueryPerformance, to its await
QueryToolsAnalyzeQueryPerformance(c) ==
  ValidateThen(c, Issue(c, AnalysisQuery(req[c].database, req[c].query), 0, 1))

\* ProfilingTools.checkDataQuality, to its first await
ProfilingToolsCheckDataQuality(c) ==
  /\ UNCHANGED verdict
  /\ Issue(c, ChecksQuery(req[c].database, SchemaArg, TableArg), 0, 1)

\* SchemaTools.describeTable, to its first await (in getTableColumns)
SchemaToolsDescribeTable(c) ==
  /\ UNCHANGED verdict
  /\ Issue(c, DescribeQuery(1, req[c].database, SchemaArg, TableArg), 0, 1)

\* a describeTable that answers without asking for the triggers
DescribeTableResumes_WithoutTriggers(c) ==
  IF stage[c] < DescribeSubQueries - 1
  THEN Issue(c, DescribeQuery(stage[c] + 1, req[c].database, SchemaArg, TableArg),
             0, stage[c] + 1)
  ELSE /\ Finish(c, OkResponse(<<"TableDescription">>))
       /\ UNCHANGED <<issued, stage>>

\* SchemaTools.describeTable resumes with the rows of sub-query stage[c]:
\* the next sub-query, or the TableDescription after the last
DescribeTableResumes(c) ==
  IF stage[c] < DescribeSubQueries
  THEN Issue(c, DescribeQuery(stage[c] + 1, req[c].database, SchemaArg, TableArg),
             0, stage[c] + 1)
  ELSE /\ Finish(c, OkResponse(<<"TableDescription">>))
       /\ UNCHANGED <<issued, stage>>

\* a switch that answers without selecting the profile
SwitchConnection_SelectsNothing(c) ==
  /\ Finish(c, OkResponse(<<"Switched", req[c].environment>>))
  /\ UNCHANGED <<current_connection, verdict, issued, stage>>

\* ConfigManager.setCurrentConnection, as the mssql_switch_connection case
\* calls it and answers
SwitchConnection(c) ==
  /\ IF ~HasConnection(req[c].environment)
     THEN /\ Finish(c, [isError |-> TRUE,
                        text |-> <<"Failed to switch connection: ",
                                   "Connection not found in configuration">>])
          /\ UNCHANGED current_connection
     ELSE /\ current_connection' = req[c].environment
          /\ Finish(c, OkResponse(<<"Switched", req[c].environment>>))
  /\ UNCHANGED <<verdict, issued, stage>>

\* handleToolCall(name, args, pool), to the tool's first suspension
HandleToolCall(c) ==
  /\ pc[c] = "ready"
  /\ IF req[c].tool = "mssql_switch_connection"
     THEN SwitchConnection(c)
     ELSE /\ UNCHANGED current_connection
          /\ CASE req[c].tool = "mssql_execute_query" -> QueryToolsExecuteQuery(c)
               [] req[c].tool = "mssql_execute_scalar" -> QueryToolsExecuteScalar(c)
               [] req[c].tool = "mssql_explain_query" -> QueryToolsExplainQuery(c)
               [] req[c].tool = "mssql_validate_syntax" -> QueryToolsValidateSyntax(c)
               [] req[c].tool = "mssql_analyze_query_performance" ->
                    QueryToolsAnalyzeQueryPerformance(c)
               [] req[c].tool = "mssql_data_quality_check" ->
                    ProfilingToolsCheckDataQuality(c)
               [] req[c].tool = "mssql_describe_table" -> SchemaToolsDescribeTable(c)
  /\ UNCHANGED <<described, connections, pools, poolObjs, req, conn>>

\* `await request.query(...)` resolves with `rows` rows in its first recordset
QueryResolves(c, rows) ==
  /\ pc[c] = "querying"
  /\ UNCHANGED verdict
  /\ CASE req[c].tool = "mssql_execute_query" ->
            /\ Finish(c, OkResponse(<<"QueryResult", rows>>))
            /\ UNCHANGED <<issued, stage>>
       [] req[c].tool = "mssql_execute_scalar" ->
            \* DatabaseManager.executeScalar
            /\ Finish(c, IF rows > 0 THEN OkResponse(<<"scalar">>)
                         ELSE ErrorResponse("Query returned no results"))
            /\ UNCHANGED <<issued, stage>>
       [] req[c].tool = "mssql_explain_query" ->
            IF stage[c] = 1
            THEN Issue(c, CostQuery(req[c].database), 0, 2)
            ELSE /\ Finish(c, OkResponse(<<"ExecutionPlan">>))
                 /\ UNCHANGED <<issued, stage>>
       [] req[c].tool = "mssql_validate_syntax" ->
            /\ Finish(c, OkResponse(<<"valid", TRUE>>))
            /\ UNCHANGED <<issued, stage>>
       [] req[c].tool = "mssql_analyze_query_performance" ->
            /\ Finish(c, OkResponse(<<"analysis", rows>>))
            /\ UNCHANGED <<issued, stage>>
       [] req[c].tool = "mssql_data_quality_check" ->
            /\ Finish(c, OkResponse(IF stage[c] = 1 THEN <<"issues", rows>>
                                    ELSE <<"info">>))
            /\ UNCHANGED <<issued, stage>>
       [] req[c].tool = "mssql_describe_table" -> DescribeTableResumes(c)
  /\ described' =
       IF req[c].tool = "mssql_describe_table"
       THEN [described EXCEPT ![c][DescribeFields[stage[c]]] = DescribeRows(stage[c])]
       ELSE described
  /\ UNCHANGED <<connections, current_connection, pools, poolObjs, req, conn>>

\* a DatabaseManager.executeQuery that sends the request once more when
\* its first attempt rejects
QueryRejects_Retries(c, error) ==
  /\ pc[c] = "querying"
  /\ UNCHANGED verdict
  /\ IF Len(issued[c]) = 1
     THEN /\ issued' = [issued EXCEPT ![c] = Append(@, issued[c][1])]
          /\ UNCHANGED <<pc, stage, response>>
     ELSE /\ Finish(c, ErrorResponse(error))
          /\ UNCHANGED <<issued, stage>>
  /\ UNCHANGED <<described, connections, current_connection, pools, poolObjs, req, conn>>

\* `await request.query(...)` rejects with the driver's error
QueryRejects(c, error) ==
  /\ pc[c] = "querying"
  /\ UNCHANGED verdict
  /\ CASE req[c].tool = "mssql_explain_query" ->
            /\ Finish(c, [isError |-> TRUE,
                          text |-> <<"Error: ", "Failed to get execution plan: ", error>>])
            /\ UNCHANGED <<issued, stage>>
       [] req[c].tool = "mssql_validate_syntax" ->
            /\ Finish(c, OkResponse(<<"valid", FALSE, error>>))
            /\ UNCHANGED <<issued, stage>>
       [] req[c].tool = "mssql_data_quality_check" ->
            IF stage[c] = 1
            THEN Issue(c, SimpleQuery(req[c].database, SchemaArg, TableArg), 0, 2)
            ELSE /\ Finish(c, ErrorResponse(error))
                 /\ UNCHANGED <<issued, stage>>
       [] OTHER ->
            /\ Finish(c, ErrorResponse(error))
            /\ UNCHANGED <<issued, stage>>
  /\ UNCHANGED <<described, connections, current_connection, pools, poolObjs, req, conn>>

\* ------------------------------------------------------------------------
\* DatabaseManager.closeAll (src/src/database.ts:108-118)
\* ------------------------------------------------------------------------

\* this.pools.clear(), and closeAll returns
CloseAllReturns ==
  /\ pools' = <<>>
  /\ poolKeys' = <<>>

\* closeAll is called: to its first await, or to its return when the Map
\* is empty
CloseAllStart ==
  /\ closer.pc = "idle"
  /\ IF poolKeys = <<>>
     THEN /\ closer' = [closer EXCEPT !.pc = "returned"]
          /\ CloseAllReturns
     ELSE LET p == pools[poolKeys[1]]
          IN  /\ closer' = [pc |-> "closing", at |-> 1, pool |-> p,
                            initial |-> {pools[k] : k \in DOMAIN pools},
                            attempted |-> {p}, failed |-> {}]
              /\ UNCHANGED <<pools, poolKeys>>
  /\ UNCHANGED <<connections, current_connection, poolObjs, pc, req, conn, stage,
                 verdict, issued, response, described, failures, catalog, guardVars>>

\* closeAll resumes after `await pool.close()`: the next entry of the Map,
\* or clear() after the last. `failed` says that close() rejected: the
\* catch logs it
CloseAllResumes(failed) ==
  /\ closer.pc = "closing"
  /\ poolObjs' = IF failed THEN poolObjs
                 ELSE [poolObjs EXCEPT ![closer.pool].state = "closed",
                                       ![closer.pool].connected = FALSE]
  /\ LET logged == IF failed THEN closer.failed \cup {closer.pool} ELSE closer.failed
     IN  IF closer.at < Len(poolKeys)
         THEN LET p == pools[poolKeys[closer.at + 1]]
              IN  /\ closer' = [closer EXCEPT !.at = @ + 1, !.pool = p,
                                              !.attempted = @ \cup {p},
                                              !.failed = logged]
                  /\ UNCHANGED <<pools, poolKeys>>
         ELSE /\ closer' = [closer EXCEPT !.pc = "returned", !.pool = NoPool,
                                          !.failed = logged]
              /\ CloseAllReturns
  /\ UNCHANGED <<connections, current_connection, pc, req, conn, stage,
                 verdict, issued, response, described, failures, catalog, guardVars>>

\* `await pool.close()` resolves
CloseResolves == CloseAllResumes(FALSE)

\* `await pool.close()` rejects
CloseRejects == CloseAllResumes(TRUE)

\* ------------------------------------------------------------------------
\* The server
\* ------------------------------------------------------------------------

\* `n` invocations to come, none received
NoInvocations(n) ==
  /\ pc = [c \in 1..n |-> "idle"]
  /\ req = [c \in 1..n |-> NoRequest]
  /\ conn = [c \in 1..n |-> NoConn]
  /\ stage = [c \in 1..n |-> 0]
  /\ verdict = [c \in 1..n |-> None]
  /\ issued = [c \in 1..n |-> <<>>]
  /\ response = [c \in 1..n |-> NoResponse]
  /\ described = [c \in 1..n |-> NoDescription]
  /\ failures = [c \in 1..n |-> {}]

\* the server after construction, about to receive `n` invocations
ServerStart(n) ==
  /\ current_connection = "local"
  /\ pools = <<>>
  /\ poolKeys = <<>>
  /\ closer = NoCloser
  /\ poolObjs = <<>>
  /\ NoInvocations(n)

GuardIdle ==
  /\ gText = <<>>
  /\ gLimit = 0
  /\ gVerdict = None
  /\ gStage = 0
  /\ gOnce = <<>>
  /\ gTwice = <<>>

\* what the server does next, the callers sending requests of `requests`
\* the driver raises `error` while invocation c is served
Raised(c, error) == failures' = [failures EXCEPT ![c] = @ \cup {error}]

ServerNext(requests) ==
  \/ \E c \in Calls, r \in requests : HandlerStart(c, r) /\ UNCHANGED <<guardVars, catalog, closer, poolKeys, failures>>
  \/ \E c \in Calls : ConnectResolves(c) /\ UNCHANGED <<guardVars, catalog, closer, failures>>
  \/ \E c \in Calls : ConnectRejects(c) /\ Raised(c, "ConnectionError") /\ UNCHANGED <<guardVars, catalog, closer, poolKeys>>
  \/ \E p \in 1..Len(poolObjs) : PoolDisconnects(p) /\ UNCHANGED <<guardVars, catalog, closer, poolKeys, failures>>
  \/ \E c \in Calls : HandleToolCall(c) /\ UNCHANGED <<guardVars, catalog, closer, poolKeys, failures>>
  \/ \E c \in Calls, rows \in RowCounts : QueryResolves(c, rows) /\ UNCHANGED <<guardVars, catalog, closer, poolKeys, failures>>
  \/ \E c \in Calls, e \in DriverErrors : QueryRejects(c, e) /\ Raised(c, e) /\ UNCHANGED <<guardVars, catalog, closer, poolKeys>>

\* The whole server: any configuration, any request
Init ==
  /\ connections \in ConfigSamples
  /\ ServerStart(MaxCalls)
  /\ catalog = NoTable
  /\ GuardIdle

Next == ServerNext(Requests)

Spec == Init /\ [][Next]_vars

\* The query tools: one configured profile, the tools that send statements
QueryRequests == {r \in Requests : r.tool # "mssql_switch_connection"}

QueryInit ==
  /\ connections = [n \in {"local"} |-> ProfilePlain]
  /\ ServerStart(MaxQueryCalls)
  /\ catalog = NoTable
  /\ GuardIdle

QueryNext == ServerNext(QueryRequests)

SpecQueries == QueryInit /\ [][QueryNext]_vars

\* The pool registry: any configuration, profile switches and one query tool
PoolRequests ==
  {r \in Requests :
     \/ r.tool = "mssql_switch_connection"
     \/ r.tool = "mssql_validate_syntax" /\ r.query = <<"s","e","l","e","c","t"," ","x">>}

PoolNext == ServerNext(PoolRequests)

\* Profile switches with any name for the environment argument: the enum
\* of the tool's inputSchema is advertised to the caller, not enforced
SwitchRequests ==
  PoolRequests \cup
  { [tool |-> "mssql_switch_connection", query |-> <<>>, database |-> <<>>,
     max_rows |-> 0, timeout |-> 0, environment |-> e, padding |-> 0] : e \in InheritedNames }

SwitchNext == ServerNext(SwitchRequests)

SpecSwitch == Init /\ [][SwitchNext]_vars

SpecPools == Init /\ [][PoolNext]_vars

\* mssql_execute_query alone: texts with their own TOP, a CTE, a sub-select
\* and a select list that follows the keyword directly; max_rows absent (0),
\* below and above limits.max_rows; timeout absent (0) and given
ExecuteSamples ==
  { <<"s","e","l","e","c","t"," ","x">>, <<"s","e","l","e","c","t"," ","t","o","p"," ","2","0","0","0","0"," ","x">>, <<"S","E","L","E","C","T"," ","T","O","P"," ","5"," ","x">>, <<"s","e","l","e","c","t","*","f","r","o","m"," ","t">>,
    <<"w","i","t","h"," ","c"," ","a","s"," ","(","s","e","l","e","c","t"," ","x",")"," ","s","e","l","e","c","t"," ","y"," ","f","r","o","m"," ","c">>, <<"s","e","l","e","c","t"," ","x"," ","f","r","o","m"," ","(","s","e","l","e","c","t"," ","y",")"," ","s">> }

ExecuteMaxRowsArgs == {0, 50, 20000}

ExecuteRequests ==
  { [tool |-> "mssql_execute_query", query |-> q, database |-> d, max_rows |-> m,
     timeout |-> 0, environment |-> None, padding |-> 0] :
       q \in ExecuteSamples, d \in DatabaseArgs, m \in ExecuteMaxRowsArgs }
  \cup
  { [tool |-> "mssql_execute_query", query |-> <<"s","e","l","e","c","t"," ","x">>, database |-> d,
     max_rows |-> 0, timeout |-> t, environment |-> None, padding |-> 0] :
       d \in DatabaseArgs, t \in TimeoutArgs }

\* a query text of more than limits.max_query_length characters: 'select x'
\* and that many blanks after it (padding counts the blanks that end a text,
\* which are not written out; only mssql_execute_query is given any)
LongExecuteRequests ==
  { [tool |-> "mssql_execute_query", query |-> <<"s","e","l","e","c","t"," ","x">>, database |-> d,
     max_rows |-> 0, timeout |-> 0, environment |-> None,
     padding |-> LimitsMaxQueryLength] : d \in DatabaseArgs }

ExecuteNext == ServerNext(ExecuteRequests \cup LongExecuteRequests)

SpecExecute == QueryInit /\ [][ExecuteNext]_vars

\* Tool arguments: the database argument is a string the caller chooses
ArgumentDatabases == { <<"A">>, <<"A","]",";"," ","d","r","o","p"," ","t","a","b","l","e"," ","t",";"," ","u","s","e"," ","[","A">> }

ArgumentRequests ==
  { [tool |-> t, query |-> IF t = "mssql_execute_query" THEN <<"s","e","l","e","c","t"," ","x">> ELSE <<>>,
     database |-> d, max_rows |-> 0, timeout |-> 0, environment |-> None,
     padding |-> 0] :
       t \in {"mssql_execute_query", "mssql_describe_table", "mssql_data_quality_check"},
       d \in ArgumentDatabases }

ArgumentNext == ServerNext(ArgumentRequests)

SpecArguments == QueryInit /\ [][ArgumentNext]_vars

\* mssql_describe_table, while other sessions change the catalog
DescribeRequests ==
  { [tool |-> "mssql_describe_table", query |-> <<>>, database |-> d,
     max_rows |-> 0, timeout |-> 0, environment |-> None, padding |-> 0] : d \in DatabaseArgs }

DescribeInit ==
  /\ connections = [n \in {"local"} |-> ProfilePlain]
  /\ ServerStart(MaxQueryCalls)
  /\ catalog \in {k \in Catalogs : k.version = 0}
  /\ GuardIdle

\* another session creates, alters or drops table T
CatalogChanges ==
  /\ catalog.version < MaxCatalogChanges
  /\ catalog' \in {k \in Catalogs :
                     /\ k.version = catalog.version + 1
                     /\ <<k.columns, k.primary_keys>> # <<catalog.columns, catalog.primary_keys>>}
  /\ UNCHANGED <<connections, current_connection, pools, poolObjs, pc, req, conn, stage,
                 verdict, issued, response, described, failures, guardVars, poolKeys, closer>>

DescribeNext == ServerNext(DescribeRequests) \/ CatalogChanges

SpecDescribe == DescribeInit /\ [][DescribeNext]_vars

\* describeTable called more than once, the catalog left alone
MaxDescribeCalls == 2

DescribeCallsInit ==
  /\ connections = [n \in {"local"} |-> ProfilePlain]
  /\ ServerStart(MaxDescribeCalls)
  /\ catalog \in {k \in Catalogs : k.version = 0 /\ k.primary_keys = k.columns \ {"name"}}
  /\ GuardIdle

DescribeCallsNext == ServerNext(DescribeRequests)

SpecDescribeCalls == DescribeCallsInit /\ [][DescribeCallsNext]_vars

\* Shutdown: closeAll is called on a server that has served invocations
\* before (a pool is registered for each of two profiles, connected or
\* not) and may have more in flight
ShutdownConfig ==
  [n \in {"local", "prod"} |-> IF n = "local" THEN ProfilePlain ELSE ProfileOtherDatabase]

RegisteredPool(config, connected) ==
  [key |-> getConnectionKey(config), config |-> config,
   requestTimeout |-> PoolRequestTimeout, state |-> "connected",
   connected |-> connected]

ShutdownInit ==
  /\ connections = ShutdownConfig
  /\ current_connection \in DOMAIN ShutdownConfig
  /\ \E a, b \in BOOLEAN :
        poolObjs = <<RegisteredPool(ShutdownConfig["local"], a),
                     RegisteredPool(ShutdownConfig["prod"], b)>>
  /\ poolKeys = <<getConnectionKey(ShutdownConfig["local"]),
                  getConnectionKey(ShutdownConfig["prod"])>>
  /\ pools = [k \in Range(poolKeys) |-> IF k = poolKeys[1] THEN 1 ELSE 2]
  /\ closer = NoCloser
  /\ NoInvocations(MaxQueryCalls)
  /\ catalog = NoTable
  /\ GuardIdle

ShutdownNext ==
  \/ ServerNext(PoolRequests)
  \/ CloseAllStart
  \/ CloseResolves
  \/ CloseRejects

SpecShutdown == ShutdownInit /\ [][ShutdownNext]_vars

\* ------------------------------------------------------------------------
\* The pure functions of the query guard, applied to bounded inputs
\* ------------------------------------------------------------------------

\* how many fragments follow the leading fragment of a text given to
\* validateReadOnlyQuery
MaxClassifyFrags == 2

\* how many fragments make up a text given to addRowLimit
MaxLimitFrags == 3

RECURSIVE Flatten(_)
Flatten(ss) == IF ss = <<>> THEN <<>> ELSE Head(ss) \o Flatten(Tail(ss))

FragSeqs(F, n) == UNION {[1..k -> F] : k \in 0..n}

\* how a text given to validateReadOnlyQuery begins
ClassifyLeads ==
  { <<>>, <<"s","e","l","e","c","t"," ">>, <<"s","e","l","e","c","t"," ","x"," ">>, <<" "," ","S","E","L","E","C","T","\t">>, <<"w","i","t","h"," ">>, <<"e","x","p","l","a","i","n"," ">>,
    <<"s","e","t"," ","s","t","a","t","i","s","t","i","c","s"," ","i","o"," ">>, <<"S","E","T"," "," ","s","h","o","w","p","l","a","n","_","a","l","l"," ">>, <<" ">> }

\* what follows
ClassifyFragments ==
  { <<"i","n","s","e","r","t">>, <<"u","p","d","a","t","e">>, <<"d","e","l","e","t","e">>, <<"d","r","o","p">>, <<"t","r","u","n","c","a","t","e">>, <<"a","l","t","e","r">>, <<"c","r","e","a","t","e">>,
    <<"e","x","e","c">>, <<"e","x","e","c","u","t","e">>, <<"s","p","_","e","x","e","c","u","t","e","s","q","l">>, <<"D","R","O","P">>, <<"E","x","e","c">>,
    <<"i","n","t","o">>, <<"s","e","t">>, <<"o","n">>, <<" ">>, <<";">>, <<"x">>, <<"_">>, <<" ","x"," ","=">>, <<" ","#","t">>, <<" ","[","x","]">> }

ClassifyTexts ==
  {lead \o Flatten(fs) :
     lead \in ClassifyLeads, fs \in FragSeqs(ClassifyFragments, MaxClassifyFrags)}

\* no invocation is received while the pure functions are exercised
ServerIdle ==
  /\ connections = [n \in {"local"} |-> ProfilePlain]
  /\ ServerStart(0)
  /\ catalog = NoTable

ClassifyInit ==
  /\ ServerIdle
  /\ gText \in ClassifyTexts
  /\ gLimit = 0
  /\ gVerdict = None
  /\ gStage = 0
  /\ gOnce = <<>>
  /\ gTwice = <<>>

\* validateReadOnlyQuery(gText)
Classify ==
  /\ gVerdict = None
  /\ gVerdict' = validateReadOnlyQuery(gText)
  /\ UNCHANGED <<serverVars, gText, gLimit, gStage, gOnce, gTwice>>

ClassifyNext == Classify

SpecClassify == ClassifyInit /\ [][ClassifyNext]_vars

\* the fragments of a text given to addRowLimit
RowLimitFragments ==
  { <<"s","e","l","e","c","t">>, <<"S","E","L","E","C","T">>, <<" ">>, <<"\t">>, <<"t","o","p">>, <<"x">>, <<"*">>, <<"o","f","f","s","e","t">>, <<"f","e","t","c","h">>,
    <<"(">>, <<"5">> }

RowLimitTexts == {Flatten(fs) : fs \in FragSeqs(RowLimitFragments, MaxLimitFrags)}

\* the maxRows given to addRowLimit
RowLimitSamples == {5, LimitsMaxRows}

RowLimitInit ==
  /\ ServerIdle
  /\ gText \in RowLimitTexts
  /\ gLimit \in RowLimitSamples
  /\ gVerdict = None
  /\ gStage = 0
  /\ gOnce = <<>>
  /\ gTwice = <<>>

\* gOnce = addRowLimit(gText, gLimit)
ApplyRowLimit ==
  /\ gStage = 0
  /\ gOnce' = addRowLimit(gText, gLimit)
  /\ gStage' = 1
  /\ UNCHANGED <<serverVars, gText, gLimit, gVerdict, gTwice>>

\* gTwice = addRowLimit(gOnce, gLimit)
ApplyRowLimitAgain ==
  /\ gStage = 1
  /\ gTwice' = addRowLimit(gOnce, gLimit)
  /\ gStage' = 2
  /\ UNCHANGED <<serverVars, gText, gLimit, gVerdict, gOnce>>

RowLimitNext == ApplyRowLimit \/ ApplyRowLimitAgain

SpecRowLimit == RowLimitInit /\ [][RowLimitNext]_vars

\* ------------------------------------------------------------------------
\* Vocabulary of the claims
\* ------------------------------------------------------------------------

\* `kw` stands in `text` at position i as a whole word, in any letter case
KeywordAt(text, i, kw) ==
  /\ i >= 1
  /\ i + Len(kw) - 1 <= Len(text)
  /\ \A k \in 1..Len(kw) : toUpperCaseChar(text[i + k - 1]) = toUpperCaseChar(kw[k])
  /\ (i = 1 \/ text[i - 1] \notin WordChars)
  /\ (i + Len(kw) > Len(text) \/ text[i + Len(kw)] \notin WordChars)

ContainsKeyword(text, kw) == \E i \in 1..Len(text) : KeywordAt(text, i, kw)

\* the first position of `text` that is not white space (Len(text) + 1 when
\* there is none)
FirstNonBlank(text) == RunEnd(text, 1, SpaceChars) + 1

\* `text` begins, after its leading white space and in any letter case,
\* with the letters of `kw`
BeginsWith(text, kw) ==
  LET i == FirstNonBlank(text)
  IN  /\ i + Len(kw) - 1 <= Len(text)
      /\ \A k \in 1..Len(kw) : toUpperCaseChar(text[i + k - 1]) = toUpperCaseChar(kw[k])

\* the characters a regular T-SQL identifier starts with and goes on with
IdentifierStart == LowerSet \cup UpperSet \cup {"_", "@", "#"}

IdentifierPart == WordChars \cup {"@", "#"}

\* the last position of the T-SQL identifier (regular, or delimited by
\* brackets) that starts at position i of `text`; 0 when none starts there
IdentifierEnd(text, i) ==
  IF i < 1 \/ i > Len(text) THEN 0
  ELSE IF text[i] = "["
       THEN LET closes == {j \in (i + 1)..Len(text) : text[j] = "]"}
            IN  IF closes = {} THEN 0 ELSE CHOOSE j \in closes : \A k \in closes : j <= k
  ELSE IF text[i] \in IdentifierStart THEN RunEnd(text, i, IdentifierPart)
  ELSE 0

\* INTO <identifier>: the keyword, white space, an identifier
ContainsIntoClause(text) ==
  \E i \in 1..Len(text) :
     /\ KeywordAt(text, i, <<"I","N","T","O">>)
     /\ LET e == RunEnd(text, i + 4, SpaceChars)
        IN  e >= i + 4 /\ IdentifierEnd(text, e + 1) # 0

\* SET <identifier> =: the keyword, white space, an identifier, an equals
\* sign after optional white space
ContainsSetAssignment(text) ==
  \E i \in 1..Len(text) :
     /\ KeywordAt(text, i, <<"S","E","T">>)
     /\ LET e == RunEnd(text, i + 3, SpaceChars)
            d == IdentifierEnd(text, e + 1)
        IN  /\ e >= i + 3
            /\ d # 0
            /\ LET x == RunEnd(text, d + 1, SpaceChars)
               IN  x + 1 <= Len(text) /\ text[x + 1] = "="

\* the deny-list tokens
DenyListTokens ==
  { <<"I","N","S","E","R","T">>, <<"U","P","D","A","T","E">>, <<"D","E","L","E","T","E">>, <<"D","R","O","P">>, <<"T","R","U","N","C","A","T","E">>, <<"A","L","T","E","R">>, <<"C","R","E","A","T","E">>,
    <<"E","X","E","C">>, <<"E","X","E","C","U","T","E">>, <<"s","p","_","e","x","e","c","u","t","e","s","q","l">> }

ContainsDenyListToken(text) == \E kw \in DenyListTokens : ContainsKeyword(text, kw)

\* the verbs of statements that write, define or run procedures
MutatingVerbs ==
  { <<"I","N","S","E","R","T">>, <<"U","P","D","A","T","E">>, <<"D","E","L","E","T","E">>, <<"M","E","R","G","E">>, <<"D","R","O","P">>, <<"T","R","U","N","C","A","T","E">>, <<"A","L","T","E","R">>,
    <<"C","R","E","A","T","E">>, <<"E","X","E","C">>, <<"E","X","E","C","U","T","E">> }

\* a statement of `text` mutates database state
IsMutatingText(text) ==
  \/ \E kw \in MutatingVerbs : ContainsKeyword(text, kw)
  \/ ContainsIntoClause(text)

\* ------------------------------------------------------------------------
\* C1
\* ------------------------------------------------------------------------

\* C1: no statement text that mutates database state (a write, DDL or
\* procedure-execution statement, alone or in a batch) is ever handed to
\* the driver by DatabaseManager.executeQuery.
C1_NoMutatingStatementReachesDriver ==
  \A c \in Calls : \A k \in DOMAIN issued[c] : ~IsMutatingText(issued[c][k].text)

\* ------------------------------------------------------------------------
\* C2
\* ------------------------------------------------------------------------

\* C2: for every tool that takes free-form SQL from the caller, a request
\* that carries the caller's text is handed to the driver only after
\* validateReadOnlyQuery has been called on the text and has allowed it.
C2_CallerSqlValidatedBeforeDriver ==
  \A c \in Calls : \A k \in DOMAIN issued[c] :
     (req[c].tool \in SqlTools /\ includes(issued[c][k].text, req[c].query))
        => issued[c][k].validated

\* ------------------------------------------------------------------------
\* C3
\* ------------------------------------------------------------------------

\* C3: every text that does not begin, after leading white space and in
\* any letter case, with SELECT, WITH or EXPLAIN is rejected by
\* validateReadOnlyQuery.
C3_NotSelectWithExplainRejected ==
  gVerdict # None =>
    ((~BeginsWith(gText, <<"S","E","L","E","C","T">>) /\ ~BeginsWith(gText, <<"W","I","T","H">>)
        /\ ~BeginsWith(gText, <<"E","X","P","L","A","I","N">>))
       => gVerdict # Allowed)

\* ------------------------------------------------------------------------
\* C4
\* ------------------------------------------------------------------------

\* C4: every text that holds a deny-list token (INSERT, UPDATE, DELETE,
\* DROP, TRUNCATE, ALTER, CREATE, EXEC, EXECUTE, sp_executesql) as a whole
\* word, anywhere and in any letter case, is rejected by
\* validateReadOnlyQuery, also when it begins with SELECT.
C4_DenyListTokenRejected ==
  gVerdict # None => (ContainsDenyListToken(gText) => gVerdict # Allowed)

\* a batch that begins with SELECT and goes on, after a semicolon, with a
\* deny-list token was classified
C4_Witness ==
  /\ gVerdict = MsgOnlySelect
  /\ BeginsWith(gText, <<"S","E","L","E","C","T">>)
  /\ \E i \in 1..Len(gText) :
        /\ gText[i] = ";"
        /\ \E kw \in DenyListTokens : KeywordAt(gText, i + 1, kw)

\* ------------------------------------------------------------------------
\* C5
\* ------------------------------------------------------------------------

\* C5: every text that holds an INTO <identifier> clause or a
\* SET <identifier> = fragment is rejected by validateReadOnlyQuery, also
\* when it begins with SELECT.
C5_IntoOrSetAssignmentRejected ==
  gVerdict # None =>
    ((ContainsIntoClause(gText) \/ ContainsSetAssignment(gText)) => gVerdict # Allowed)

\* ------------------------------------------------------------------------
\* C6
\* ------------------------------------------------------------------------

\* C6: an invocation of execute_query, execute_scalar, explain_query or
\* analyze_query_performance whose text validateReadOnlyQuery rejects hands
\* no request to the driver (the text is not rewritten and resubmitted) and
\* answers an error response that carries the rejection message.
C6_RejectedIssuesNothingAndErrors ==
  \A c \in Calls :
     (verdict[c] # None /\ verdict[c] # Allowed) =>
        /\ issued[c] = <<>>
        /\ pc[c] = "done"
        /\ response[c].isError
        /\ response[c].text = <<"Error: ", verdict[c]>>

\* mssql_execute_query was called with a text that validateReadOnlyQuery
\* rejected, and has answered
C6_Witness ==
  \E c \in Calls :
     /\ req[c].tool = "mssql_execute_query"
     /\ verdict[c] = MsgOnlySelect
     /\ pc[c] = "done"
     /\ response[c].isError

\* ------------------------------------------------------------------------
\* C7
\* ------------------------------------------------------------------------

\* C7: at most one live pool exists per profile identity at any time: under
\* any interleaving of getConnection calls for one identity, one pool is
\* constructed and connected, and every caller receives that pool.
C7_AtMostOneLivePoolPerIdentity ==
  \A p1, p2 \in DOMAIN poolObjs :
     (poolObjs[p1].key = poolObjs[p2].key
        /\ poolObjs[p1].connected /\ poolObjs[p2].connected)
       => p1 = p2

\* ------------------------------------------------------------------------
\* C8
\* ------------------------------------------------------------------------

\* getConnection has returned a pool to invocation c
Acquired(c) ==
  /\ pc[c] \in {"ready", "querying", "done"}
  /\ conn[c].pool # NoPool
  /\ poolObjs[conn[c].pool].state = "connected"

\* C8: a getConnection call that finds the pool registered for its
\* identity connected returns that pool, with no second connect; two calls
\* whose profiles differ in the database field never return the same pool.
C8_SamePoolIffSameIdentity ==
  /\ \A c \in Calls :
        (Acquired(c) /\ conn[c].found # NoPool) => conn[c].pool = conn[c].found
  /\ \A c1, c2 \in Calls :
        (Acquired(c1) /\ Acquired(c2)
           /\ connections[conn[c1].name].database # connections[conn[c2].name].database)
          => conn[c1].pool # conn[c2].pool

\* ------------------------------------------------------------------------
\* C9
\* ------------------------------------------------------------------------

\* C9: addRowLimit is idempotent: addRowLimit(addRowLimit(q, n), n) equals
\* addRowLimit(q, n), for every text q and every limit n.
C9_AddRowLimitIdempotent == gStage = 2 => gTwice = gOnce

\* addRowLimit inserted a TOP qualifier, and was applied to its own result
C9_Witness ==
  /\ gStage = 2
  /\ gOnce # gText
  /\ includes(gOnce, <<"S","E","L","E","C","T"," ","T","O","P"," ">>)

\* ------------------------------------------------------------------------
\* C10
\* ------------------------------------------------------------------------

\* a SELECT TOP qualifier: the keywords SELECT and TOP, white space between
HasSelectTop(text) ==
  \E i \in 1..Len(text) :
     /\ KeywordAt(text, i, <<"S","E","L","E","C","T">>)
     /\ LET e == RunEnd(text, i + 6, SpaceChars)
        IN  e >= i + 6 /\ KeywordAt(text, e + 1, <<"T","O","P">>)

\* an OFFSET ... FETCH clause: the keyword OFFSET and, after it, FETCH
HasOffsetFetch(text) ==
  \E i, j \in 1..Len(text) :
     i < j /\ KeywordAt(text, i, <<"O","F","F","S","E","T">>) /\ KeywordAt(text, j, <<"F","E","T","C","H">>)

\* the position of the first SELECT keyword of `text`, 0 when it has none
FirstSelect(text) ==
  LET at == {i \in 1..Len(text) : KeywordAt(text, i, <<"S","E","L","E","C","T">>)}
  IN  IF at = {} THEN 0 ELSE CHOOSE i \in at : \A j \in at : i <= j

\* `text` with ' TOP n' put right after its first SELECT keyword
TopAfterFirstSelect(text, n) ==
  LET i == FirstSelect(text)
  IN  SubSeq(text, 1, i + 5) \o <<" ","T","O","P"," ">> \o NumberToString(n)
        \o (IF i + 6 <= Len(text) /\ IsSpace(text[i + 6]) THEN <<>> ELSE <<" ">>)
        \o SubSeq(text, i + 6, Len(text))

RECURSIVE Canonical(_)
\* a text in upper case, each run of white space one blank
Canonical(text) ==
  IF text = <<>> THEN <<>>
  ELSE IF IsSpace(Head(text))
       THEN LET e == RunEnd(text, 1, SpaceChars)
            IN  <<" ">> \o Canonical(SubSeq(text, e + 1, Len(text)))
  ELSE <<toUpperCaseChar(Head(text))>> \o Canonical(Tail(text))

\* something other than white space follows the first SELECT keyword
SelectsSomething(text) ==
  /\ FirstSelect(text) # 0
  /\ RunEnd(text, FirstSelect(text) + 6, SpaceChars) < Len(text)

\* C10: addRowLimit returns the text unchanged when it already holds a
\* row-limiting clause (a SELECT TOP qualifier or an OFFSET ... FETCH
\* clause); otherwise it puts 'TOP maxRows' right after the first SELECT
\* keyword and changes nothing else (letter case and the width of white
\* space aside; a text whose SELECT keyword nothing follows is left out).
C10_UnchangedWhenLimitedElseTopInserted ==
  gStage >= 1 =>
    IF HasSelectTop(gText) \/ HasOffsetFetch(gText) THEN gOnce = gText
    ELSE SelectsSomething(gText)
           => Canonical(gOnce) = Canonical(TopAfterFirstSelect(gText, gLimit))

\* ------------------------------------------------------------------------
\* C11
\* ------------------------------------------------------------------------

\* how many parentheses are open at position i of `text`
Depth(text, i) ==
  Cardinality({j \in 1..(i - 1) : text[j] = "("})
    - Cardinality({j \in 1..(i - 1) : text[j] = ")"})

\* the position of the first SELECT keyword of `text` outside parentheses:
\* the SELECT whose rows the statement returns (0 when there is none)
OuterSelect(text) ==
  LET at == {i \in 1..Len(text) : KeywordAt(text, i, <<"S","E","L","E","C","T">>) /\ Depth(text, i) = 0}
  IN  IF at = {} THEN 0 ELSE CHOOSE i \in at : \A j \in at : i <= j

RECURSIVE DigitsValue(_)
\* the number a run of digits writes
DigitsValue(ds) ==
  IF ds = <<>> THEN 0
  ELSE 10 * DigitsValue(SubSeq(ds, 1, Len(ds) - 1))
         + (CHOOSE v \in 0..9 : DigitChars[v + 1] = ds[Len(ds)])

\* the n of the 'TOP n' that follows the SELECT keyword at position i of
\* `text`; -1 when none follows
TopValue(text, i) ==
  LET e == RunEnd(text, i + 6, SpaceChars)
      f == RunEnd(text, e + 4, SpaceChars)
      g == RunEnd(text, f + 1, Range(DigitChars))
  IN  IF /\ i # 0
         /\ e >= i + 6
         /\ KeywordAt(text, e + 1, <<"T","O","P">>)
         /\ f >= e + 4
         /\ g >= f + 1
      THEN DigitsValue(SubSeq(text, f + 1, g))
      ELSE -1

\* the statement asks for at most n rows
RequestsAtMost(text, n) ==
  LET top == TopValue(text, OuterSelect(text))
  IN  top >= 0 /\ top <= n

\* min(requested max_rows, limits.max_rows), the request's default when none
\* is requested
RowBound(r) == Min(IF r.max_rows = 0 THEN DefaultMaxRows ELSE r.max_rows, LimitsMaxRows)

\* C11: every statement mssql_execute_query hands to the driver is bounded
\* to at most min(requested max_rows, limits.max_rows) rows, whatever the
\* accepted text (its own TOP, a CTE, a sub-select) and the max_rows given.
C11_ExecuteQueryRowBounded ==
  \A c \in Calls : \A k \in DOMAIN issued[c] :
     req[c].tool = "mssql_execute_query"
       => RequestsAtMost(issued[c][k].text, RowBound(req[c]))

\* mssql_execute_query sent a statement that is bounded as asked
C11_Bounded ==
  \E c \in Calls : \E k \in DOMAIN issued[c] :
     /\ req[c].tool = "mssql_execute_query"
     /\ req[c].max_rows = 50
     /\ RequestsAtMost(issued[c][k].text, 50)

\* ------------------------------------------------------------------------
\* C12
\* ------------------------------------------------------------------------

\* the deadline, in milliseconds, a request runs under: the one set on the
\* request object, else the requestTimeout of its pool
Deadline(r) == IF r.timeoutMs # 0 THEN r.timeoutMs ELSE poolObjs[r.pool].requestTimeout

\* C12 as stated: every request handed to the driver, by any tool, has had
\* its deadline (seconds x 1000 ms) set on the request object before the
\* query is issued.
C12_ExplicitTimeoutOnEveryRequest ==
  \A c \in Calls : \A k \in DOMAIN issued[c] : issued[c][k].timeoutMs # 0

\* C12, amended: every request handed to the driver runs under a deadline.
\* mssql_execute_query sets it on the request object, as the timeout
\* argument, or limits.query_timeout_seconds when none is given, times 1000;
\* the requests of every other tool have nothing set on them and run under
\* the requestTimeout their pool was constructed with.
C12_EveryRequestRunsUnderDeadline ==
  \A c \in Calls : \A k \in DOMAIN issued[c] :
     /\ Deadline(issued[c][k]) > 0
     /\ IF req[c].tool = "mssql_execute_query"
        THEN issued[c][k].timeoutMs
               = 1000 * (IF req[c].timeout # 0 THEN req[c].timeout
                         ELSE LimitsQueryTimeoutSeconds)
        ELSE /\ issued[c][k].timeoutMs = 0
             /\ Deadline(issued[c][k]) = PoolRequestTimeout

\* mssql_execute_scalar handed the driver a request with no timeout set on
\* it, on a pool that has a requestTimeout
C12_Witness ==
  \E c \in Calls : \E k \in DOMAIN issued[c] :
     /\ req[c].tool = "mssql_execute_scalar"
     /\ issued[c][k].timeoutMs = 0
     /\ poolObjs[issued[c][k].pool].requestTimeout = PoolRequestTimeout

\* ------------------------------------------------------------------------
\* C13
\* ------------------------------------------------------------------------

\* describeTable has returned a TableDescription to invocation c
DescriptionReturned(c) ==
  /\ req[c].tool = "mssql_describe_table"
  /\ pc[c] = "done"
  /\ ~response[c].isError

\* C13: describeTable on a (schema, table) pair whose columns sub-query
\* returns no rows ends in a NotFound error; it never returns a
\* TableDescription whose columns list is empty.
C13_NoDescriptionWithoutColumns ==
  \A c \in Calls : DescriptionReturned(c) => described[c].columns # {}

\* ------------------------------------------------------------------------
\* C14
\* ------------------------------------------------------------------------

\* C14: every TableDescription describeTable returns has its primary_keys
\* among the names of its columns, also when another session changes the
\* catalog between the columns sub-query and the primary-key sub-query.
C14_PrimaryKeysAmongColumns ==
  \A c \in Calls :
     DescriptionReturned(c) => described[c].primary_keys \subseteq described[c].columns

\* ------------------------------------------------------------------------
\* C15
\* ------------------------------------------------------------------------

\* closeAll returns in this step
CloseAllReturning == closer.pc # "returned" /\ closer'.pc = "returned"

\* C15: closeAll attempts to close every pool that was registered when it
\* was called, a failed close (logged) not preventing the attempts on the
\* remaining pools, and the registry is empty when it returns.
C15_CloseAllAttemptsEveryRegisteredPool ==
  [][CloseAllReturning =>
       /\ closer'.initial \subseteq closer'.attempted
       /\ pools' = <<>>]_vars

\* ------------------------------------------------------------------------
\* C16
\* ------------------------------------------------------------------------

\* the length of the query text of request r, the blanks that end it included
QueryLength(r) == Len(r.query) + r.padding

\* C16: mssql_execute_query never sends the driver a caller query longer
\* than limits.max_query_length (50,000 characters); such a query is
\* rejected.
C16_QueryLengthEnforced ==
  \A c \in Calls :
     (req[c].tool = "mssql_execute_query" /\ QueryLength(req[c]) > LimitsMaxQueryLength)
        => /\ issued[c] = <<>>
           /\ pc[c] = "done" => response[c].isError

\* ------------------------------------------------------------------------
\* C17
\* ------------------------------------------------------------------------

\* the leading-token allow-list check, as the code makes it: the text
\* begins with SELECT, WITH, EXPLAIN, or SET and then STATISTICS or SHOWPLAN
\* (what this list should hold is the matter of C3)
PassesAllowList(text) ==
  \/ BeginsWith(text, <<"S","E","L","E","C","T">>)
  \/ BeginsWith(text, <<"W","I","T","H">>)
  \/ BeginsWith(text, <<"E","X","P","L","A","I","N">>)
  \/ /\ BeginsWith(text, <<"S","E","T">>)
     /\ LET i == FirstNonBlank(text)
            e == RunEnd(text, i + 3, SpaceChars)
            rest == SubSeq(text, e + 1, Len(text))
        IN  /\ e >= i + 3
            /\ (BeginsWith(rest, <<"S","T","A","T","I","S","T","I","C","S">>) \/ BeginsWith(rest, <<"S","H","O","W","P","L","A","N">>))

\* the deny-list check, as the code makes it: a deny-list token as a whole
\* word, INTO and a word after white space, or SET, a word and an equals
\* sign (what these patterns should catch is the matter of C4 and C5)
MatchesDenyList(text) ==
  \/ ContainsDenyListToken(text)
  \/ \E i \in 1..Len(text) :
        /\ KeywordAt(text, i, <<"I","N","T","O">>)
        /\ LET e == RunEnd(text, i + 4, SpaceChars)
           IN  e >= i + 4 /\ e + 1 <= Len(text) /\ text[e + 1] \in WordChars
  \/ \E i \in 1..Len(text) :
        /\ KeywordAt(text, i, <<"S","E","T">>)
        /\ LET e == RunEnd(text, i + 3, SpaceChars)
               w == RunEnd(text, e + 1, WordChars)
               x == RunEnd(text, w + 1, SpaceChars)
           IN  e >= i + 3 /\ w >= e + 1 /\ x + 1 <= Len(text) /\ text[x + 1] = "="

\* C17: validateReadOnlyQuery accepts a text if and only if the text passes
\* the leading-token allow-list check and matches none of the deny-list
\* patterns; a text that fails either check is rejected whatever the
\* outcome of the other.
C17_AcceptsIffBothChecksPass ==
  gVerdict # None =>
    /\ gVerdict = Allowed <=> (PassesAllowList(gText) /\ ~MatchesDenyList(gText))
    /\ MatchesDenyList(gText) => gVerdict = MsgOnlySelect
    /\ (~MatchesDenyList(gText) /\ ~PassesAllowList(gText)) => gVerdict = MsgMustStart

\* a text that passes the allow-list check and matches a deny-list pattern
\* was rejected
C17_Witness ==
  /\ gVerdict = MsgOnlySelect
  /\ PassesAllowList(gText)
  /\ MatchesDenyList(gText)

\* ------------------------------------------------------------------------
\* C18
\* ------------------------------------------------------------------------

\* getConnection is called for invocation c in this step
AcquireCalled(c) == pc[c] = "idle" /\ pc'[c] # "idle"

\* getConnection returns a pool to invocation c in this step
AcquireReturns(c) == pc[c] \in {"idle", "connecting"} /\ pc'[c] = "ready"

\* the pool registered for the current profile's identity reports
\* disconnected
StaleRegistered ==
  /\ current_connection \in DOMAIN connections
  /\ LET key == getConnectionKey(connections[current_connection])
     IN  key \in DOMAIN pools /\ ~poolObjs[pools[key]].connected

\* C18: when the pool registered for the identity reports disconnected,
\* getConnection constructs a new pool and connects it; whenever
\* getConnection returns a pool, the registry maps the identity to that
\* pool (the stale entry replaced) and the pool is connected.
C18_StalePoolReplaced ==
  [][\A c \in Calls :
       /\ (AcquireCalled(c) /\ StaleRegistered) =>
             /\ pc'[c] = "connecting"
             /\ conn'[c].pool \notin DOMAIN poolObjs
             /\ conn'[c].pool # pools[conn'[c].key]
             /\ poolObjs'[conn'[c].pool].state = "connecting"
       /\ AcquireReturns(c) =>
             /\ conn'[c].key \in DOMAIN pools'
             /\ pools'[conn'[c].key] = conn'[c].pool
             /\ poolObjs'[conn'[c].pool].connected]_vars

\* getConnection found the registered pool disconnected, and the pool it
\* connected in its place is the one registered now
C18_Witness ==
  \E c \in Calls : \E q \in DOMAIN poolObjs :
     /\ pc[c] = "ready"
     /\ conn[c].found = NoPool
     /\ q < conn[c].pool
     /\ poolObjs[q].key = conn[c].key
     /\ poolObjs[q].state = "connected" /\ ~poolObjs[q].connected
     /\ pools[conn[c].key] = conn[c].pool
     /\ poolObjs[conn[c].pool].connected

\* ------------------------------------------------------------------------
\* C19
\* ------------------------------------------------------------------------

\* getConnection throws in this step: the credential check of a sql profile
\* fails, or the awaited connect rejects
AcquireFailsAtCheck(c) ==
  /\ pc[c] = "idle" /\ pc'[c] = "done"
  /\ conn'[c].key # <<>>

AcquireFailsAtConnect(c) == pc[c] = "connecting" /\ pc'[c] = "done"

\* an earlier getConnection for the key has failed
FailedBefore(key) ==
  \E d \in Calls : /\ pc[d] = "done"
                    /\ conn[d].key = key
                    /\ response[d].isError
                    /\ issued[d] = <<>>
                    /\ conn[d].found = NoPool

CredentialsMissing(config) ==
  /\ config.authentication = "sql"
  /\ (config.username = Absent \/ config.password = Absent)

IssuedTexts(c) == { issued[c][i].text : i \in 1..Len(issued[c]) }

\* C20: nothing is retried within an invocation. A pool's connect is
\* attempted once: when it settles the invocation goes on with that pool or
\* ends, and no pool is constructed in answer. A call of
\* DatabaseManager.executeQuery hands one request to the driver; when the
\* request settles the invocation either answers or goes on to a statement
\* it has not sent before, and a tool that does not catch answers a failed
\* query with the driver's error after that one request.
C20_NothingRetried ==
  [][\A c \in Calls :
       /\ \A p \in DOMAIN poolObjs :
             poolObjs[p].state # "connecting" => poolObjs'[p].state = poolObjs[p].state
       /\ conn[c].pool # NoPool => conn'[c].pool = conn[c].pool
       /\ (pc[c] = "connecting" /\ pc'[c] # "connecting") =>
             /\ pc'[c] \in {"ready", "done"}
             /\ Len(poolObjs') = Len(poolObjs)
             /\ issued'[c] = <<>>
       /\ \/ issued'[c] = issued[c]
          \/ /\ Len(issued'[c]) = Len(issued[c]) + 1
             /\ SubSeq(issued'[c], 1, Len(issued[c])) = issued[c]
             /\ issued'[c][Len(issued'[c])].text \notin IssuedTexts(c)
       /\ (pc[c] = "querying" /\ issued'[c] = issued[c]) =>
             (pc'[c] = "querying" \/ pc'[c] = "done")
       /\ (/\ pc'[c] = "done"
           /\ req'[c].tool \in {"mssql_execute_query", "mssql_execute_scalar",
                                 "mssql_analyze_query_performance"}) =>
             Len(issued'[c]) <= 1
       /\ pc[c] = "done" => (pc'[c] = "done" /\ issued'[c] = issued[c])]_vars

\* an execute_query whose one request timed out has answered with the
\* driver's error
C20_Witness ==
  \E c \in Calls :
     /\ pc[c] = "done"
     /\ req[c].tool = "mssql_execute_query"
     /\ Len(issued[c]) = 1
     /\ response[c].isError
     /\ response[c].text = <<"Error: ", "Timeout: Request failed to complete">>

\* ------------------------------------------------------------------------
\* C21
\* ------------------------------------------------------------------------

\* pool p is closed in this step
Closes(p) == poolObjs[p].state # "closed" /\ poolObjs'[p].state = "closed"

\* C21: a pool is closed only by closeAll: every step that closes a pool is
\* the step of closeAll that resumes from `await pool.close()` on that pool;
\* no step of a tool invocation (reuse, replacement of a stale entry, a
\* profile switch, a failed invocation) closes one.
C21_ClosedOnlyByCloseAll ==
  [][\A p \in DOMAIN poolObjs :
       Closes(p) => /\ closer.pc = "closing"
                    /\ closer.pool = p
                    /\ pc' = pc]_vars

\* closeAll not called, a getConnection has replaced a stale entry of the
\* registry, and the pool it replaced is as it was
C21_Witness ==
  /\ closer.pc = "idle"
  /\ \E c \in Calls : \E q \in DOMAIN poolObjs :
        /\ pc[c] \in {"ready", "done"}
        /\ conn[c].pool # NoPool /\ conn[c].found = NoPool
        /\ q # conn[c].pool
        /\ poolObjs[q].key = conn[c].key
        /\ poolObjs[q].state = "connected"
        /\ pools[conn[c].key] = conn[c].pool

\* ------------------------------------------------------------------------
\* C22
\* ------------------------------------------------------------------------

\* the settings of a profile that getConnection copies into the pool's
\* configuration
Settings(config) ==
  <<config.encrypt, config.trustServerCertificate, config.readonly, config.authentication>>

\* C22: the pool getConnection returns for a profile was constructed with
\* the encrypt, trustServerCertificate, readOnlyIntent and authentication
\* settings of that profile.
C22_PoolHasSettingsOfItsProfile ==
  \A c \in Calls :
     pc[c] = "ready" =>
       Settings(poolObjs[conn[c].pool].config) = Settings(connections[conn[c].name])

\* ------------------------------------------------------------------------
\* C23
\* ------------------------------------------------------------------------

\* the first n sub-queries of describeTable for invocation c, in the order
\* columns, primary keys, indexes, foreign keys, referenced by, triggers
DescribeTexts(c, n) ==
  [k \in 1..n |-> DescribeQuery(k, req[c].database, SchemaArg, TableArg)]

DescribeCalled(c) == req[c].tool = "mssql_describe_table" /\ pc[c] \in {"querying", "done"}

C24_IndexColumnsAmongColumns ==
  \A c \in Calls :
     DescriptionReturned(c) =>
       \A i \in described[c].indexes :
          (i.columns \cup i.included_columns) \subseteq described[c].columns

\* ------------------------------------------------------------------------
\* C25
\* ------------------------------------------------------------------------

\* C25: every failure raised while an invocation is served reaches the
\* caller as an error: an invocation during which the driver raised an
\* error, or whose query validateReadOnlyQuery rejected, answers with
\* isError true; none answers a driver failure with a normal result.
C25_NoErrorSwallowed ==
  \A c \in Calls :
     (pc[c] = "done" /\ (failures[c] # {} \/ verdict[c] \notin {None, Allowed})) =>
       response[c].isError

\* ------------------------------------------------------------------------
\* C26
\* ------------------------------------------------------------------------

\* mssql_switch_connection has answered invocation c
SwitchAnswered(c) == req[c].tool = "mssql_switch_connection" /\ pc[c] = "done"

\* C26: current_connection always names a configured profile, and a switch
\* to a name that is not configured is answered with an error.
C26_CurrentConnectionConfigured ==
  /\ current_connection \in DOMAIN connections
  /\ \A c \in Calls :
        (SwitchAnswered(c) /\ req[c].environment \notin DOMAIN connections) =>
          response[c].isError

\* ------------------------------------------------------------------------
\* C27
\* ------------------------------------------------------------------------

\* C27: when closeAll returns, no pool the DatabaseManager connected is
\* still open (one whose close() rejected aside), whatever getConnection
\* calls came before or are in flight.
C27_NothingOpenAfterCloseAll ==
  [][CloseAllReturning =>
       \A p \in DOMAIN poolObjs' :
          poolObjs'[p].connected => p \in closer'.failed]_vars

\* ------------------------------------------------------------------------
\* C28
\* ------------------------------------------------------------------------

\* where the bracketed identifier that opens at position 5 of `text`
\* closes: the first ] that is not doubled
UseIdentifierEnd(text) ==
  CHOOSE i \in 6..Len(text) :
     /\ text[i] = "]" /\ (i = Len(text) \/ text[i + 1] # "]")
     /\ \A j \in 6..(i - 1) : text[j] # "]"

\* C28: the database argument cannot add a statement to what is sent: in
\* every text handed to the driver the identifier of the leading USE is the
\* whole argument, so that the tool's own statements follow it directly.
C28_DatabaseArgumentStaysIdentifier ==
  \A c \in Calls : \A k \in 1..Len(issued[c]) :
     LET text == issued[c][k].text
     IN  SubSeq(text, 6, UseIdentifierEnd(text) - 1) = req[c].database

\* ------------------------------------------------------------------------
\* C29
\* ------------------------------------------------------------------------

\* mssql_switch_connection answers invocation c with success in this step
SwitchSucceeds(c) ==
  /\ req[c].tool = "mssql_switch_connection"
  /\ pc[c] = "ready" /\ pc'[c] = "done"
  /\ ~response'[c].isError

\* C29: an invocation is bound, when it starts, to the profile that is
\* current at that moment and keeps that binding: every query it sends runs
\* on the pool it acquired for that profile's identity, whatever switch is
\* processed meanwhile. A successful switch sets the current profile to the
\* name asked for and nothing else changes it, so that invocations started
\* afterwards are bound to the newly selected profile.
C29_InvocationKeepsItsProfile ==
  [][\A c \in Calls :
       /\ (AcquireCalled(c) /\ conn'[c].name # None) =>
             /\ conn'[c].name = current_connection
             /\ conn'[c].key = getConnectionKey(connections[current_connection])
       /\ conn[c].name # None => conn'[c] = conn[c]
       /\ \A k \in 1..Len(issued'[c]) :
             /\ issued'[c][k].pool = conn'[c].pool
             /\ poolObjs'[conn'[c].pool].key = getConnectionKey(connections[conn'[c].name])
       /\ SwitchSucceeds(c) => current_connection' = req[c].environment
       /\ current_connection' # current_connection =>
             \E d \in Calls : SwitchSucceeds(d)]_vars

\* an invocation has a query in flight on the pool of the profile it
\* started with, a switch to a profile of another identity having been
\* processed meanwhile
C29_Witness ==
  \E c \in Calls :
     /\ pc[c] = "querying"
     /\ conn[c].name # current_connection
     /\ issued[c][1].pool = conn[c].pool
     /\ poolObjs[conn[c].pool].key = getConnectionKey(connections[conn[c].name])
     /\ getConnectionKey(connections[current_connection]) # conn[c].key

\* ------------------------------------------------------------------------
\* C30
\* ------------------------------------------------------------------------

\* C30: a mssql_switch_connection to a configured profile name succeeds
\* whether or not a pool can be connected: every such invocation that has
\* answered has answered with success.
C30_SwitchToConfiguredSucceeds ==
  \A c \in Calls :
     (SwitchAnswered(c) /\ req[c].environment \in DOMAIN connections) =>
       ~response[c].isError
====
